---- MODULE Spec2Model ----
(***************************************************************************)
(* State-machine model of the nsf-outreach pipeline: the folder-backed     *)
(* record store (src/utils.js), the draft generator (src/generate.js),     *)
(* the interactive review session (src/review.js) and the batch sender     *)
(* (src/send.js).  One CLI command runs at a time (single operator).       *)
(***************************************************************************)
EXTENDS Integers, Sequences, FiniteSets, TLC

\* ---------------------------------------------------------------- bounds
NumAwards == 3      \* award ids 1..NumAwards
MaxBatch == 2       \* longest award list handed to generateEmails
MaxEdits == 1       \* editor sessions that change a file, over a whole run
PipelineAwards == 2 \* award ids the generator is handed in the pipeline (Spec)
PipelineBatch == 1  \* longest award list in the pipeline (Spec)
MaxFiles == 2       \* most files in the awards folder of a year
MaxItems == 2       \* most items of a facet of variants.json
MaxCount == 23      \* most files the status command finds in drafts or in sent
FixedLimit == 2         \* the limit of every invocation of the repeated sender

Ids == 1..NumAwards

\* ------------------------------------------------------------ JS values
Null == "null"          \* null / undefined, for timestamps and identifiers

\* Strings are sequences of characters; a null or undefined string and the
\* empty string are both the empty sequence (the code only tests truthiness).
NoString == <<>>

Truthy(v) == v # NoString

\* A file's content.  kind "record" is a parsed OutreachRecord; the other
\* kinds carry blank fields.
Blank(kind) ==
  [kind |-> kind, award_id |-> 0, pi_email |-> NoString, body |-> 0,
   sent_at |-> Null, resend_id |-> Null]

NoFile == Blank("nofile")      \* no file of that name in the folder
Corrupt == Blank("corrupt")    \* a file whose content JSON.parse rejects
NullRec == Blank("null")       \* readJson's null

Includes(s, c) == \E k \in 1..Len(s) : s[k] = c

ValidEmail == <<"p", "@", "u">>
NoAtEmail == <<"p", "u">>

Min(a, b) == IF a < b THEN a ELSE b
Max(a, b) == IF a > b THEN a ELSE b

SliceAll(arr, end) == arr

\* Array.prototype.slice(0, end)
Slice(arr, end) ==
  LET n == Len(arr)
      e == IF end < 0 THEN Max(n + end, 0) ELSE Min(end, n)
  IN  SubSeq(arr, 1, e)

\* arr.splice(index, 1) for an index inside the array
Splice(arr, index) ==
  [k \in 1..(Len(arr) - 1) |-> IF k <= index THEN arr[k] ELSE arr[k + 1]]

Range(s) == {s[k] : k \in 1..Len(s)}

\* every order in which the elements of S can be listed
Orders(S) ==
  {s \in [1..Cardinality(S) -> S] : \A a, b \in 1..Cardinality(S) : s[a] = s[b] => a = b}

\* ---------------------------------------------------------- record store
StatusFolders == {"drafts", "approved", "sent", "skipped"}

VARIABLES
  store,    \* store[folder][id]: content of <folder>/<id>.json, or NoFile
  pc,       \* position of the running command; "idle" between commands
  gen,      \* locals of generateEmails
  snd,      \* locals of sendApprovedEmails
  rev,      \* locals of startReview
  edits,    \* editor sessions that changed a file so far
  snap,     \* the store as it was when the running command started
  trace,    \* external calls and sleeps of the running command, in order
  awardFiles, \* awardFiles[id]: content of awards/<year>/<id>.json, or NoAward
  staging,  \* staging[id]: content of staging/<id>.json, or NoAward
  fn,       \* the last call of a query: its name, arguments and result
  exp,      \* locals of startExplore
  provider  \* the award ids whose delivery call the provider confirmed

\* the folders, the call record and the explore session, which the three
\* pipeline commands never write, and the provider's record, which only a
\* confirmed delivery call changes
aux == <<awardFiles, staging, fn, exp, provider>>

vars == <<store, pc, gen, snd, rev, edits, snap, trace, aux>>

EmptyStore == [f \in StatusFolders |-> [id \in Ids |-> NoFile]]

\* fs.readdirSync(dir) filtered to *.json: the ids with a file in the folder
FilesIn(folder) == {id \in Ids : store[folder][id] # NoFile}

\* listIds(folder): the directory listing, in an order the platform chooses
listIds(folder) == Orders(FilesIn(folder))

\* readJson(filepath): null when the file is missing or does not parse
readJson(folder, id) ==
  IF store[folder][id].kind = "record" THEN store[folder][id] ELSE NullRec

writeJsonDrops(st, folder, id, data) == st

\* writeJson(filepath, data): creates or silently replaces the file
writeJson(st, folder, id, data) == [st EXCEPT ![folder][id] = data]

\* fs.unlinkSync behind fs.existsSync
unlinkIfExistsKeeps(st, folder, id) == st

unlinkIfExists(st, folder, id) == [st EXCEPT ![folder][id] = NoFile]

moveFileNeverThrows(st, id, fromFolder) == FALSE

\* moveFile(filename, fromFolder, toFolder): fs.renameSync throws ENOENT
\* when the source is missing, and replaces an existing destination
moveFileThrows(st, id, fromFolder) == st[fromFolder][id] = NoFile

moveFileUnlinksOnly(st, id, fromFolder, toFolder) ==
  [st EXCEPT ![fromFolder][id] = NoFile]

moveFileCopies(st, id, fromFolder, toFolder) ==
  [st EXCEPT ![toFolder][id] = st[fromFolder][id]]

moveFileKeepsExisting(st, id, fromFolder, toFolder) ==
  [st EXCEPT ![toFolder][id] = IF @ = NoFile THEN st[fromFolder][id] ELSE @,
             ![fromFolder][id] = NoFile]

moveFile(st, id, fromFolder, toFolder) ==
  [st EXCEPT ![toFolder][id] = st[fromFolder][id], ![fromFolder][id] = NoFile]

\* the folders holding a file named <id>.json
FoldersOf(st, id) == {f \in StatusFolders : st[f][id] # NoFile}

\* --------------------------------------------------------------- awards
\* An award as handed to the generator: the normalized awardNumber (or the
\* file-name id when it is missing) and the PI's e-mail address.
Award(id, email) == [_id |-> id, awardNumber |-> id, piEmail |-> email]

AwardPool ==
  {Award(id, ValidEmail) : id \in Ids}
    \cup {Award(1, NoString), Award(2, NoAtEmail)}

\* the awards on disk in the pipeline specification
PipelinePool == {award \in AwardPool : award.awardNumber <= PipelineAwards}

extractPIInfo(award) ==
  [piEmail |-> IF Truthy(award.piEmail) THEN award.piEmail ELSE NoString]

hasValidContactNoAtCheck(award) ==
  Truthy(extractPIInfo(award).piEmail)

hasValidContact(award) ==
  LET piEmail == extractPIInfo(award).piEmail
  IN  Truthy(piEmail) /\ Includes(piEmail, "@")

AwardIdOf(award) ==
  IF award.awardNumber # 0 THEN award.awardNumber ELSE award._id

\* -------------------------------------------------------- award folders
\* a || b of JavaScript, for ids (0 is a missing field) and for strings
OrId(a, b) == IF a # 0 THEN a ELSE b

OrStr(a, b) == IF Truthy(a) THEN a ELSE b

\* The content of a file of awards/<year>/ or of staging/.  kind "award" is a
\* parsed NSF award; a missing field is 0 (ids) or the empty string.
RawAward(awd_id, awardNumber, awd_titl_txt, title, piEmail) ==
  [kind |-> "award", awd_id |-> awd_id, awardNumber |-> awardNumber,
   awd_titl_txt |-> awd_titl_txt, title |-> title,
   awd_abstract_narration |-> NoString, abstractText |-> NoString,
   piEmail |-> piEmail, staged |-> FALSE]

BlankAward(kind) ==
  [RawAward(0, 0, NoString, NoString, NoString) EXCEPT !.kind = kind]

NoAward == BlankAward("nofile")        \* no file of that name in the folder
CorruptAward == BlankAward("corrupt")  \* a file JSON.parse rejects

EmptyDir == [id \in Ids |-> NoAward]

\* what a file of the year's folder can hold: text that does not parse, or
\* an award in the API's or the bulk download's field names, with or without
\* an id of its own
AwardFileContents ==
  {CorruptAward, RawAward(0, 1, NoString, <<"A", "b">>, ValidEmail)}
    \cup {RawAward(awd_id, 0, <<"A", "b">>, NoString, ValidEmail) :
            awd_id \in {0} \cup Ids}

\* String.prototype.toLowerCase over the letters used here
toLowerCase(s) ==
  [k \in 1..Len(s) |-> IF s[k] = "A" THEN "a" ELSE IF s[k] = "B" THEN "b" ELSE s[k]]

\* String.prototype.includes(t)
IncludesStr(s, t) ==
  \E k \in 0..(Len(s) - Len(t)) : SubSeq(s, k + 1, k + Len(t)) = t

\* matchesKeywords(text, keywords)
matchesKeywordsCaseSensitive(text, keywords) ==
  IF Len(keywords) = 0 THEN TRUE
  ELSE IF ~Truthy(text) THEN FALSE
  ELSE \E k \in 1..Len(keywords) : IncludesStr(text, keywords[k])

matchesKeywords(text, keywords) ==
  IF Len(keywords) = 0 THEN TRUE
  ELSE IF ~Truthy(text) THEN FALSE
  ELSE \E k \in 1..Len(keywords) :
         IncludesStr(toLowerCase(text), toLowerCase(keywords[k]))

\* listAwardIds(year): the file names of the year's folder
listAwardIds(dir) == {id \in Ids : dir[id] # NoAward}

\* the field normalization of loadAwards, and the _id it attaches
normalizeAliasFirst(raw, id) ==
  [_id |-> id,
   awardNumber |-> OrId(raw.awardNumber, OrId(raw.awd_id, id)),
   title |-> OrStr(raw.title, OrStr(raw.awd_titl_txt, NoString)),
   abstractText |-> OrStr(raw.abstractText, OrStr(raw.awd_abstract_narration, NoString)),
   piEmail |-> raw.piEmail]

normalize(raw, id) ==
  [_id |-> id,
   awardNumber |-> OrId(raw.awd_id, OrId(raw.awardNumber, id)),
   title |-> OrStr(raw.awd_titl_txt, OrStr(raw.title, NoString)),
   abstractText |-> OrStr(raw.awd_abstract_narration, OrStr(raw.abstractText, NoString)),
   piEmail |-> raw.piEmail]

\* loadAwards(year, keywords), for the listing ids of the year's folder
loadAwards(dir, ids, keywords) ==
  LET kept == SelectSeq(ids, LAMBDA id :
                /\ dir[id].kind = "award"
                /\ LET award == normalize(dir[id], id)
                   IN  matchesKeywords(award.title \o <<" ">> \o award.abstractText,
                                       keywords))
  IN  [k \in 1..Len(kept) |-> normalize(dir[kept[k]], kept[k])]

\* the ids with a file in one of the four status folders
processedIdsNoSkipped ==
  FilesIn("drafts") \cup FilesIn("approved") \cup FilesIn("sent")

processedIdsWithStaging ==
  FilesIn("drafts") \cup FilesIn("approved") \cup FilesIn("sent")
    \cup FilesIn("skipped") \cup {id \in Ids : staging[id] # NoAward}

processedIds ==
  FilesIn("drafts") \cup FilesIn("approved") \cup FilesIn("sent")
    \cup FilesIn("skipped")

\* getUnprocessedAwards(year, keywords)
getUnprocessedAwards(dir, ids, keywords) ==
  SelectSeq(loadAwards(dir, ids, keywords),
            LAMBDA award : AwardIdOf(award) \notin processedIds)

\* ------------------------------------------------------ style variants
\* templates/variants.json: three facets, each a list of items; an item's
\* "enabled" field is "true", "false" or "absent".
Item(id, enabled) == [id |-> id, enabled |-> enabled]

VariantsAllEnabled ==
  [templates |-> <<Item(1, "true"), Item(2, "absent")>>,
   ouro_descriptions |-> <<Item(1, "false"), Item(2, "true")>>,
   call_to_actions |-> <<Item(1, "absent")>>]

VariantsNoDescription ==
  [templates |-> <<Item(1, "true"), Item(2, "true")>>,
   ouro_descriptions |-> <<Item(1, "false")>>,
   call_to_actions |-> <<Item(1, "true")>>]

VariantFiles == {VariantsAllEnabled, VariantsNoDescription}

filterEnabledKeepsAll(items) == items

filterEnabledNeedsField(items) ==
  SelectSeq(items, LAMBDA item : item.enabled = "true")

filterEnabled(items) == SelectSeq(items, LAMBDA item : item.enabled # "false")

\* selectVariants throws when a facet has no enabled item
selectVariantsThrows(all) ==
  \/ Len(filterEnabled(all.templates)) = 0
  \/ Len(filterEnabled(all.ouro_descriptions)) = 0
  \/ Len(filterEnabled(all.call_to_actions)) = 0

\* the selections randomSelect can produce
selectVariants(all) ==
  [template : Range(filterEnabled(all.templates)),
   ouro_description : Range(filterEnabled(all.ouro_descriptions)),
   call_to_action : Range(filterEnabled(all.call_to_actions))]

\* ------------------------------------------------------ draft generator
NoVariants == [templates |-> <<>>, ouro_descriptions |-> <<>>, call_to_actions |-> <<>>]

GenIdle == [toProcess |-> <<>>, i |-> 0, generated |-> <<>>, errors |-> <<>>,
            variants |-> NoVariants]
SndIdle == [toSend |-> <<>>, i |-> 0, sent |-> <<>>, errors |-> <<>>,
            limit |-> 0, delay |-> 0, dryRun |-> FALSE, apiKey |-> FALSE,
            fromEmail |-> NoString, resendId |-> Null]
RevIdle == [folder |-> Null, emails |-> <<>>, currentIndex |-> 0,
            running |-> FALSE, listening |-> FALSE, resolved |-> FALSE,
            paused |-> FALSE, timers |-> 0, editWait |-> 0, displayed |-> 0]

\* isAlreadyProcessed(awardId)
isAlreadyProcessedDraftsOnly(awardId) == awardId \in FilesIn("drafts")

isAlreadyProcessedNever(awardId) == FALSE

isAlreadyProcessed(awardId) ==
  awardId \in (FilesIn("drafts") \cup FilesIn("approved")
                 \cup FilesIn("sent") \cup FilesIn("skipped"))

\* the record generateEmail returns for a well-formed model response
NewDraft(award) ==
  [kind |-> "record", award_id |-> AwardIdOf(award),
   pi_email |-> extractPIInfo(award).piEmail,
   body |-> 0, sent_at |-> Null, resend_id |-> Null]

\* shuffleArray: every permutation of the awards
shuffleArray(awards) ==
  {[k \in 1..Len(awards) |-> awards[p[k]]] : p \in Orders(1..Len(awards))}

GenError(award, msg) == [awardId |-> AwardIdOf(award), error |-> msg]

\* after the loop body for toProcess[i]: next award or end of the loop
GenAdvance(g) ==
  IF g.i + 1 < Len(g.toProcess) THEN "gen_check" ELSE "gen_done"

\* the catch block of the loop: record the error, go on with the next award
GenAfterErrorAborts(g) == "gen_done"

GenAfterError(g) == GenAdvance(g)

\* generateEmails(awards, {limit}): shuffle, truncate, start the loop; the
\* awards are any list of up to maxLen awards of the pool
generateEmails(pool, maxLen) ==
  /\ pc = "idle"
  /\ \E n \in 0..maxLen : \E awards \in [1..n -> pool] :
     \E limit \in 0..maxLen : \E all \in VariantFiles :
     \E shuffled \in shuffleArray(awards) :
       /\ gen' = [GenIdle EXCEPT !.toProcess = Slice(shuffled, limit),
                                 !.variants = all]
       /\ pc' = IF Len(Slice(shuffled, limit)) > 0 THEN "gen_check" ELSE "gen_done"
  /\ snap' = store
  /\ UNCHANGED <<store, snd, rev, edits, trace, aux>>

GenStart == generateEmails(AwardPool, MaxBatch)

GenStartPipeline == generateEmails(PipelinePool, PipelineBatch)

\* generateEmail up to the model call: the three synchronous throws
GenCheck ==
  /\ pc = "gen_check"
  /\ LET award == gen.toProcess[gen.i + 1]
         all == gen.variants
         fail(msg) ==
           /\ gen' = [gen EXCEPT !.errors = Append(@, GenError(award, msg)),
                                 !.i = @ + 1]
           /\ pc' = GenAfterError(gen)
           /\ UNCHANGED trace
     IN  IF ~hasValidContact(award) THEN fail("invalid_contact")
         ELSE IF isAlreadyProcessed(AwardIdOf(award)) THEN fail("already_processed")
         ELSE IF selectVariantsThrows(all) THEN fail("no_enabled_variants")
         ELSE /\ \E v \in selectVariants(all) : TRUE
              /\ trace' = Append(trace, [e |-> "model", id |-> AwardIdOf(award),
                                         k |-> gen.i + 1])
              /\ pc' = "gen_call"
              /\ UNCHANGED gen
  /\ UNCHANGED <<store, snd, rev, edits, snap, aux>>

ModelResponses == {"api_error", "no_tool_use", "no_subject", "no_body", "ok"}

\* saveDraft(email)
saveDraft(st, email) == writeJson(st, "drafts", email.award_id, email)

\* the model call returns or throws; validation; saveDraft on success
GenResponse ==
  /\ pc = "gen_call"
  /\ \E resp \in ModelResponses :
       LET award == gen.toProcess[gen.i + 1]
       IN  IF resp = "ok"
           THEN /\ store' = saveDraft(store, NewDraft(award))
                /\ gen' = [gen EXCEPT !.generated = Append(@, AwardIdOf(award)),
                                      !.i = @ + 1]
                /\ pc' = GenAdvance(gen)
           ELSE /\ gen' = [gen EXCEPT
                             !.errors = Append(@, GenError(award,
                                 IF resp \in {"no_subject", "no_body"}
                                 THEN "missing_subject_or_body" ELSE resp)),
                             !.i = @ + 1]
                /\ pc' = GenAfterError(gen)
                /\ UNCHANGED store
  /\ UNCHANGED <<snd, rev, edits, snap, trace, aux>>

\* generateEmails returns its results; the command ends
GenReturn ==
  /\ pc = "gen_done"
  /\ pc' = "idle"
  /\ gen' = GenIdle
  /\ snap' = EmptyStore
  /\ trace' = <<>>
  /\ UNCHANGED <<store, snd, rev, edits, aux>>

\* --------------------------------------------------------- batch sender
SendLimits == 0..NumAwards
Delays == {0, 60}
FromEmails == {NoString, <<"f">>}
ProviderIds == {"re_1"}
Now == "now"            \* new Date().toISOString()

\* the two configuration checks at the top of sendApprovedEmails
sendConfigThrowsKeyOnly(dryRun, apiKey, fromEmail) == ~dryRun /\ ~apiKey

sendConfigThrows(dryRun, apiKey, fromEmail) ==
  \/ ~dryRun /\ ~apiKey
  \/ ~Truthy(fromEmail) /\ ~dryRun

\* getApprovedEmails(): the listed files that parse, in listing order
getApprovedEmails ==
  {SelectSeq([k \in 1..Len(ids) |-> readJson("approved", ids[k])],
             LAMBDA email : email.kind = "record") : ids \in listIds("approved")}

SendErrorEntry(email, msg) ==
  [awardId |-> email.award_id, recipient |-> email.pi_email, error |-> msg]

SendSentEntry(email, resendId) ==
  [awardId |-> email.award_id, recipient |-> email.pi_email, resendId |-> resendId]

\* end of the loop body for toSend[i]
SendAdvance(s) ==
  IF s.i + 1 < Len(s.toSend) THEN "send_email" ELSE "send_done"

\* the catch block of the loop: record the error, go on with the next record
SendAfterErrorAborts(s) == "send_done"

SendAfterError(s) == SendAdvance(s)

\* sendEmail's first check
sendEmailThrows(email) == ~Truthy(email.pi_email)

\* sendEmail reaches the provider only outside dry-run mode
callsProviderAlways(s) == TRUE

callsProvider(s) == ~s.dryRun

\* sendApprovedEmails(options) up to the loop
SendStart ==
  /\ pc = "idle"
  /\ \E limit \in SendLimits, delay \in Delays, dryRun \in BOOLEAN,
        apiKey \in BOOLEAN, fromEmail \in FromEmails :
       LET opts == [SndIdle EXCEPT !.limit = limit, !.delay = delay,
                                   !.dryRun = dryRun, !.apiKey = apiKey,
                                   !.fromEmail = fromEmail]
       IN  IF sendConfigThrows(dryRun, apiKey, fromEmail)
           THEN /\ snd' = [SndIdle EXCEPT !.dryRun = dryRun, !.apiKey = apiKey,
                                          !.fromEmail = fromEmail]
                /\ pc' = "send_threw"
           ELSE \E emails \in getApprovedEmails :
                  /\ snd' = [opts EXCEPT !.toSend = Slice(emails, limit)]
                  /\ pc' = IF Len(Slice(emails, limit)) > 0
                           THEN "send_email" ELSE "send_done"
  /\ snap' = store
  /\ UNCHANGED <<store, gen, rev, edits, trace, aux>>

\* sendEmail(email, options) up to the provider call
SendEmail ==
  /\ pc = "send_email"
  /\ LET email == snd.toSend[snd.i + 1]
     IN  IF sendEmailThrows(email)
         THEN /\ snd' = [snd EXCEPT
                           !.errors = Append(@, SendErrorEntry(email, "no_recipient")),
                           !.i = @ + 1]
              /\ pc' = SendAfterError(snd)
              /\ UNCHANGED trace
         ELSE IF ~callsProvider(snd)
         THEN /\ snd' = [snd EXCEPT
                           !.sent = Append(@, SendSentEntry(email, Null)),
                           !.i = @ + 1]
              /\ pc' = SendAdvance(snd)
              /\ UNCHANGED trace
         ELSE /\ trace' = Append(trace, [e |-> "deliver", id |-> email.award_id,
                                         k |-> snd.i + 1])
              /\ pc' = "send_call"
              /\ UNCHANGED snd
  /\ UNCHANGED <<store, gen, rev, edits, snap, aux>>

DeliveryOutcomes == {"ok", "error_payload", "throws"}

\* resend.emails.send settles: confirmation id, error payload, or a throw
SendResponse ==
  /\ pc = "send_call"
  /\ \E outcome \in DeliveryOutcomes :
       LET email == snd.toSend[snd.i + 1]
       IN  /\ IF outcome = "ok"
              THEN \E rid \in ProviderIds :
                     IF ~snd.dryRun
                     THEN /\ snd' = [snd EXCEPT !.resendId = rid]
                          /\ pc' = "mark_write"
                     ELSE /\ snd' = [snd EXCEPT
                                       !.sent = Append(@, SendSentEntry(email, rid)),
                                       !.i = @ + 1]
                          /\ pc' = SendAdvance(snd)
              ELSE /\ snd' = [snd EXCEPT
                                !.errors = Append(@, SendErrorEntry(email, outcome)),
                                !.i = @ + 1]
                   /\ pc' = SendAfterError(snd)
           /\ provider' = IF outcome = "ok"
                          THEN provider \cup {email.award_id} ELSE provider
  /\ UNCHANGED <<store, gen, rev, edits, snap, trace, awardFiles, staging, fn, exp>>

\* markAsSent, first half: the updated record is written into sent
updatedEmailNoTimestamp(email, resendId) ==
  [email EXCEPT !.resend_id = resendId]

updatedEmail(email, resendId) ==
  [email EXCEPT !.sent_at = Now, !.resend_id = resendId]

MarkWrite ==
  /\ pc = "mark_write"
  /\ LET email == snd.toSend[snd.i + 1]
     IN  store' = writeJson(store, "sent", email.award_id,
                            updatedEmail(email, snd.resendId))
  /\ pc' = "mark_unlink"
  /\ UNCHANGED <<gen, snd, rev, edits, snap, trace, aux>>

\* the rate-limiting condition after a successful real send
sleepsAfterAlways(s) == ~s.dryRun /\ s.delay > 0

sleepsAfter(s) == ~s.dryRun /\ s.i < Len(s.toSend) - 1 /\ s.delay > 0

\* markAsSent, second half: the file is removed from approved; then the
\* result is recorded and the loop sleeps or goes on
MarkUnlink ==
  /\ pc = "mark_unlink"
  /\ LET email == snd.toSend[snd.i + 1]
     IN  /\ store' = unlinkIfExists(store, "approved", email.award_id)
         /\ IF sleepsAfter(snd)
            THEN /\ snd' = [snd EXCEPT
                              !.sent = Append(@, SendSentEntry(email, snd.resendId)),
                              !.resendId = Null]
                 /\ trace' = Append(trace, [e |-> "sleep", id |-> email.award_id,
                                            k |-> snd.i + 1])
                 /\ pc' = "send_sleep"
            ELSE /\ snd' = [snd EXCEPT
                              !.sent = Append(@, SendSentEntry(email, snd.resendId)),
                              !.resendId = Null, !.i = @ + 1]
                 /\ pc' = SendAdvance(snd)
                 /\ UNCHANGED trace
  /\ UNCHANGED <<gen, rev, edits, snap, aux>>

\* the catch block after markAsSent threw: the record is reported in errors
SendFsError(s) ==
  [s EXCEPT !.errors = Append(@, SendErrorEntry(s.toSend[s.i + 1], "fs_error")),
            !.resendId = Null, !.i = @ + 1]

\* markAsSent, first half, failing: fs.writeFileSync throws and leaves no
\* file or a truncated one; the loop's catch block goes on
MarkWriteThrows ==
  /\ pc = "mark_write"
  /\ store' \in {store, writeJson(store, "sent", snd.toSend[snd.i + 1].award_id, Corrupt)}
  /\ snd' = SendFsError(snd)
  /\ pc' = SendAfterError(snd)
  /\ UNCHANGED <<gen, rev, edits, snap, trace, aux>>

\* markAsSent, second half, failing: fs.unlinkSync throws, the approved
\* file stays; the loop's catch block goes on
MarkUnlinkThrows ==
  /\ pc = "mark_unlink"
  /\ snd' = SendFsError(snd)
  /\ pc' = SendAfterError(snd)
  /\ UNCHANGED <<store, gen, rev, edits, snap, trace, aux>>

\* the process is killed while sendApprovedEmails runs
SendCrash ==
  /\ pc \in {"send_email", "send_call", "mark_write", "mark_unlink", "send_sleep"}
  /\ pc' = "idle"
  /\ snd' = SndIdle
  /\ snap' = EmptyStore
  /\ trace' = <<>>
  /\ UNCHANGED <<store, gen, rev, edits, aux>>

\* the sleep timer fires
SendWake ==
  /\ pc = "send_sleep"
  /\ snd' = [snd EXCEPT !.i = @ + 1]
  /\ pc' = SendAdvance(snd)
  /\ UNCHANGED <<store, gen, rev, edits, snap, trace, aux>>

\* sendApprovedEmails returns its results, or its configuration error
\* reaches the caller; the command ends
SendReturn ==
  /\ pc \in {"send_done", "send_threw"}
  /\ pc' = "idle"
  /\ snd' = SndIdle
  /\ snap' = EmptyStore
  /\ trace' = <<>>
  /\ UNCHANGED <<store, gen, rev, edits, aux>>

\* ------------------------------------------------------- review session
Keys == {"q", "right", "left", "a", "s", "e", "x"}
EditKinds == {"body", "no_recipient", "corrupt"}

\* what an editor session can leave in the file
edited(file, kind) ==
  IF kind = "corrupt" THEN Corrupt
  ELSE IF kind = "no_recipient" THEN [file EXCEPT !.pi_email = NoString]
  ELSE [file EXCEPT !.body = @ + 1]

Entry(folder, id) == [id |-> id, email |-> readJson(folder, id).kind]

Outcome(r, st, ed, crash) == [rev |-> r, store |-> st, edits |-> ed, crash |-> crash]

InRange(r) == r.currentIndex >= 0 /\ r.currentIndex < Len(r.emails)

\* refresh(): ends the session on an empty list, else clamps the index
\* and displays; displayEmail(null, ...) is a TypeError.  displayed is the
\* id of the entry displayEmail drew last, 0 once that entry has been moved.
refresh(r) ==
  IF Len(r.emails) = 0
  THEN [rev |-> [r EXCEPT !.running = FALSE], ret |-> FALSE, crash |-> FALSE]
  ELSE LET ci == Max(Min(r.currentIndex, Len(r.emails) - 1), 0)
       IN  [rev |-> [r EXCEPT !.currentIndex = ci, !.displayed = r.emails[ci + 1].id],
            ret |-> TRUE,
            crash |-> r.emails[ci + 1].email = "null"]

\* cleanup(); removeListener; resolve()
finish(r) == [r EXCEPT !.paused = TRUE, !.listening = FALSE, !.resolved = TRUE]

\* startReview(folder) up to the registration of the keypress listener
ReviewStart ==
  /\ pc = "idle"
  /\ \E folder \in StatusFolders : \E ids \in listIds(folder) :
       LET emails == SelectSeq([k \in 1..Len(ids) |-> Entry(folder, ids[k])],
                               LAMBDA en : en.email = "record")
       IN  IF Len(ids) = 0 \/ Len(emails) = 0
           THEN UNCHANGED <<pc, rev>>
           ELSE /\ rev' = refresh([RevIdle EXCEPT !.folder = folder, !.emails = emails,
                                                  !.running = TRUE, !.listening = TRUE]).rev
                /\ pc' = "review"
  /\ snap' = IF pc' = "review" THEN store ELSE snap
  /\ UNCHANGED <<store, gen, snd, edits, trace, aux>>

\* the approve and skip branches of handleKeypress
moveKey(r, st, ed, toFolder) ==
  IF ~InRange(r) THEN Outcome(r, st, ed, FALSE)
  ELSE LET current == r.emails[r.currentIndex + 1]
       IN  IF moveFileThrows(st, current.id, "drafts")
           THEN Outcome(r, st, ed, FALSE)
           ELSE Outcome([r EXCEPT !.emails = Splice(r.emails, r.currentIndex),
                                  !.timers = @ + 1, !.displayed = 0],
                        moveFile(st, current.id, "drafts", toFolder), ed, FALSE)

\* the edit branch: the editor runs on current.filepath, then a one-shot
\* keypress listener is registered and stdin resumed
editKey(r, st, ed) ==
  IF ~InRange(r) THEN {Outcome(r, st, ed, TRUE)}
  ELSE LET current == r.emails[r.currentIndex + 1]
           waiting == [r EXCEPT !.editWait = current.id, !.paused = FALSE]
       IN  {Outcome(waiting, st, ed, FALSE)}
             \cup {Outcome(waiting,
                           writeJson(st, r.folder, current.id,
                                     edited(st[r.folder][current.id], kind)),
                           ed + 1, FALSE) :
                     kind \in {k \in EditKinds :
                                 ed < MaxEdits /\ st[r.folder][current.id].kind = "record"}}

\* the guard of the approve and skip branches
approveGuard(r, key) == r.folder = "drafts"

\* handleKeypress(str, key)
handleKeypress(key, r, st, ed) ==
  IF ~r.running THEN {Outcome(r, st, ed, FALSE)}
  ELSE IF key = "q" THEN {Outcome(finish([r EXCEPT !.running = FALSE]), st, ed, FALSE)}
  ELSE IF key = "right"
  THEN LET rf == refresh([r EXCEPT !.currentIndex = Min(@ + 1, Len(r.emails) - 1)])
       IN  {Outcome(rf.rev, st, ed, rf.crash)}
  ELSE IF key = "left"
  THEN LET rf == refresh([r EXCEPT !.currentIndex = Max(@ - 1, 0)])
       IN  {Outcome(rf.rev, st, ed, rf.crash)}
  ELSE IF key = "a" /\ approveGuard(r, key) THEN {moveKey(r, st, ed, "approved")}
  ELSE IF key = "s" /\ approveGuard(r, key) THEN {moveKey(r, st, ed, "skipped")}
  ELSE IF key = "e" THEN editKey(r, st, ed)
  ELSE {Outcome(r, st, ed, FALSE)}

\* the one-shot listener of a pending edit: reload the file, refresh
editDone(id, o) ==
  IF o.crash THEN o
  ELSE IF ~InRange(o.rev) THEN [o EXCEPT !.crash = TRUE]
  ELSE LET reloaded == [o.rev EXCEPT
                          !.emails[o.rev.currentIndex + 1].email =
                             (IF o.store[o.rev.folder][id].kind = "record"
                              THEN "record" ELSE "null")]
           rf == refresh(reloaded)
       IN  [o EXCEPT !.rev = rf.rev, !.crash = rf.crash]

\* a key reaches the process: handleKeypress runs if still registered,
\* then the one-shot listener that was pending when the key arrived
Keypress ==
  /\ pc = "review"
  /\ ~rev.paused
  /\ \E key \in Keys :
       LET pending == rev.editWait
           cleared == [rev EXCEPT !.editWait = 0]
           first == IF rev.listening
                    THEN handleKeypress(key, cleared, store, edits)
                    ELSE {Outcome(cleared, store, edits, FALSE)}
       IN  \E o1 \in first :
             LET o == IF pending # 0 THEN editDone(pending, o1) ELSE o1
             IN  /\ store' = o.store
                 /\ edits' = o.edits
                 /\ IF o.crash
                    THEN /\ pc' = "idle"
                         /\ rev' = RevIdle
                         /\ snap' = EmptyStore
                    ELSE /\ pc' = "review"
                         /\ rev' = o.rev
                         /\ UNCHANGED snap
  /\ UNCHANGED <<gen, snd, trace, aux>>

\* the 300 ms pause after an approve or skip ends: refresh, and finish the
\* session when nothing is left
TimerFire ==
  /\ pc = "review"
  /\ rev.timers > 0
  /\ LET rf == refresh([rev EXCEPT !.timers = @ - 1])
     IN  IF rf.crash
         THEN /\ pc' = "idle"
              /\ rev' = RevIdle
              /\ snap' = EmptyStore
         ELSE /\ pc' = "review"
              /\ rev' = IF rf.ret THEN rf.rev ELSE finish(rf.rev)
              /\ UNCHANGED snap
  /\ UNCHANGED <<store, gen, snd, edits, trace, aux>>

\* a second review session, in another terminal, approves or skips a draft
\* while this one runs
OtherReviewMoves ==
  /\ pc = "review"
  /\ \E id \in FilesIn("drafts"), toFolder \in {"approved", "skipped"} :
       store' = moveFile(store, id, "drafts", toFolder)
  /\ UNCHANGED <<pc, gen, snd, rev, edits, snap, trace, aux>>

\* the session's promise has resolved and nothing keeps the process alive
ReviewExit ==
  /\ pc = "review"
  /\ rev.resolved
  /\ rev.timers = 0
  /\ pc' = "idle"
  /\ rev' = RevIdle
  /\ snap' = EmptyStore
  /\ UNCHANGED <<store, gen, snd, edits, trace, aux>>

\* -------------------------------------------------------------- queries
NoCall == [op |-> "none"]

KeywordLists == {<<>>, << <<"a", "B">> >>, << <<"b", "b">> >>}

\* getUnprocessedAwards(year, keywords), as the scan and generate commands
\* call it, on a listing of the year's folder
ScanUnprocessed ==
  /\ pc = "idle"
  /\ fn = NoCall
  /\ \E ids \in Orders(listAwardIds(awardFiles)), keywords \in KeywordLists :
       fn' = [op |-> "getUnprocessedAwards", ids |-> ids, keywords |-> keywords,
              ret |-> getUnprocessedAwards(awardFiles, ids, keywords)]
  /\ UNCHANGED <<store, pc, gen, snd, rev, edits, snap, trace, awardFiles, staging, exp, provider>>

\* loadAwards(year, keywords) on a year's folder with the one file 1.json,
\* holding any combination of the raw and the alias fields
LoadContents ==
  {CorruptAward}
    \cup {[RawAward(awd_id, awardNumber, awd_titl_txt, title, ValidEmail) EXCEPT
             !.awd_abstract_narration = narration, !.abstractText = abstractText] :
           awd_id \in {0, 2}, awardNumber \in {0, 3},
           awd_titl_txt \in {NoString, <<"A", "b">>}, title \in {NoString, <<"c">>},
           narration \in {NoString, <<"B", "a">>}, abstractText \in {NoString, <<"d">>}}

LoadDirs == {[EmptyDir EXCEPT ![1] = content] : content \in LoadContents}

LoadKeywordLists ==
  {<<>>, << <<"a", "b">> >>, << <<"A", "B">> >>, << <<"b", "b">> >>,
   << <<"b", " ", "b">> >>, << <<"c">> >>, << <<"x">> >>, << <<"x">>, <<"d">> >>}

LoadAwardsCall ==
  /\ pc = "idle"
  /\ fn = NoCall
  /\ \E ids \in Orders(listAwardIds(awardFiles)), keywords \in LoadKeywordLists :
       fn' = [op |-> "loadAwards", ids |-> ids, keywords |-> keywords,
              ret |-> loadAwards(awardFiles, ids, keywords)]
  /\ UNCHANGED <<store, pc, gen, snd, rev, edits, snap, trace, awardFiles, staging, exp, provider>>

\* every variants.json with up to MaxItems items in a facet
FacetLists ==
  UNION {[1..n -> {Item(1, enabled) : enabled \in {"true", "false", "absent"}}] :
           n \in 0..MaxItems}

Facet(list) == [k \in 1..Len(list) |-> Item(k, list[k].enabled)]

VariantConfigs ==
  {[templates |-> Facet(t), ouro_descriptions |-> Facet(d), call_to_actions |-> Facet(c)] :
     t \in FacetLists, d \in FacetLists, c \in FacetLists}

NoItem == Item(0, "absent")
NoSelection == [template |-> NoItem, ouro_description |-> NoItem, call_to_action |-> NoItem]

\* selectVariants() on a variants.json: a selection, or a throw
SelectVariantsCall ==
  /\ pc = "idle"
  /\ fn = NoCall
  /\ \E all \in VariantConfigs :
       IF selectVariantsThrows(all)
       THEN fn' = [op |-> "selectVariants", all |-> all, threw |-> TRUE,
                   ret |-> NoSelection]
       ELSE \E selection \in selectVariants(all) :
              fn' = [op |-> "selectVariants", all |-> all, threw |-> FALSE,
                     ret |-> selection]
  /\ UNCHANGED <<store, pc, gen, snd, rev, edits, snap, trace, awardFiles, staging, exp, provider>>

\* ------------------------------------------------------- status command
\* JavaScript numbers are IEEE-754 doubles.  A positive double is its 53
\* mantissa bits m (most significant first, m[1] = 1) and the exponent e of
\* m[1]: its value is the sum of m[i] * 2^(e - i + 1).
MantissaBits == 53

RECURSIVE Binary(_)
Binary(natural) ==
  IF natural = 0 THEN <<>> ELSE Append(Binary(natural \div 2), natural % 2)

\* the first count bits of dividend / divisor for divisor <= dividend <
\* 2 * divisor, and what is left of the dividend; long division, the bits of
\* the first half and then those of the second
RECURSIVE DivBits(_, _, _)
DivBits(dividend, divisor, count) ==
  IF count = 0 THEN [bits |-> <<>>, rem |-> dividend]
  ELSE IF count = 1
  THEN LET bit == IF dividend >= divisor THEN 1 ELSE 0
       IN  [bits |-> <<bit>>, rem |-> 2 * (dividend - bit * divisor)]
  ELSE LET half == count \div 2
           first == DivBits(dividend, divisor, half)
           second == DivBits(first.rem, divisor, count - half)
       IN  [bits |-> first.bits \o second.bits, rem |-> second.rem]

\* how often from must be doubled to reach upTo
RECURSIVE Shift(_, _)
Shift(from, upTo) == IF from >= upTo THEN 0 ELSE 1 + Shift(2 * from, upTo)

RECURSIVE Pow2(_)
Pow2(exponent) == IF exponent = 0 THEN 1 ELSE 2 * Pow2(exponent - 1)

\* mantissa + 1, for a mantissa that is not all ones
Increment(mantissa) ==
  LET zeros == {k \in 1..Len(mantissa) : mantissa[k] = 0}
      low == CHOOSE k \in zeros : \A j \in zeros : j <= k
  IN  [k \in 1..Len(mantissa) |->
         IF k < low THEN mantissa[k] ELSE IF k = low THEN 1 ELSE 0]

\* round to nearest, ties to even: bits holds the mantissa and the bits after
\* it, sticky says whether anything non-zero follows bits
RoundToDouble(bits, sticky, e) ==
  LET mantissa == SubSeq(bits, 1, MantissaBits)
      guard == Len(bits) > MantissaBits /\ bits[MantissaBits + 1] = 1
      more == sticky \/ \E k \in (MantissaBits + 2)..Len(bits) : bits[k] = 1
      roundUp == guard /\ (more \/ mantissa[MantissaBits] = 1)
  IN  IF ~roundUp THEN [m |-> mantissa, e |-> e]
      ELSE IF \A k \in 1..MantissaBits : mantissa[k] = 1
      THEN [m |-> [k \in 1..MantissaBits |-> IF k = 1 THEN 1 ELSE 0], e |-> e + 1]
      ELSE [m |-> Increment(mantissa), e |-> e]

\* a / b in doubles, for integers 0 < a <= b
Divide(a, b) ==
  LET shift == Shift(a, b)
      quotient == DivBits(a * Pow2(shift), b, MantissaBits + 1)
  IN  RoundToDouble(quotient.bits, quotient.rem # 0, 0 - shift)

\* the integer that bits[from..upTo] spells
RECURSIVE SegValue(_, _, _)
SegValue(bits, from, upTo) ==
  IF from = upTo THEN bits[from]
  ELSE LET middle == (from + upTo) \div 2
       IN  SegValue(bits, from, middle) * Pow2(upTo - middle)
             + SegValue(bits, middle + 1, upTo)

\* natural < 2^width as width bits
BitsOf(natural, width) ==
  [k \in 1..width |-> (natural \div Pow2(width - k)) % 2]

\* the digits of the long multiplication are held LimbBits at a time
LimbBits == 18

\* the low Len(mantissa) - from + 1 bits of mantissa[from..] * factor, and the
\* carry out of them
RECURSIVE MulFrom(_, _, _)
MulFrom(mantissa, factor, from) ==
  IF from > Len(mantissa) THEN [bits |-> <<>>, carry |-> 0]
  ELSE LET upTo == IF from + LimbBits - 1 < Len(mantissa)
                   THEN from + LimbBits - 1 ELSE Len(mantissa)
           width == upTo - from + 1
           rest == MulFrom(mantissa, factor, upTo + 1)
           sum == SegValue(mantissa, from, upTo) * factor + rest.carry
       IN  [bits |-> BitsOf(sum % Pow2(width), width) \o rest.bits,
            carry |-> sum \div Pow2(width)]

\* x * c in doubles, for a positive double x and a small integer c > 0
Times(x, c) ==
  LET digits == MulFrom(x.m, c, 1)
      product == Binary(digits.carry) \o digits.bits
  IN  RoundToDouble(product, FALSE, x.e + Len(product) - MantissaBits)

RECURSIVE BitsValue(_)
BitsValue(bits) ==
  IF Len(bits) = 0 THEN 0
  ELSE 2 * BitsValue(SubSeq(bits, 1, Len(bits) - 1)) + bits[Len(bits)]

\* Math.round(x) for a positive double x below 2^31: nearest integer, a
\* half rounds up
MathRound(x) ==
  IF x.e < 0 - 1 THEN 0
  ELSE BitsValue(SubSeq(x.m, 1, x.e + 1)) + x.m[x.e + 2]

\* Math.round((sent / total) * 100) for total > 0
progress(sent, total) ==
  IF sent = 0 THEN 0 ELSE MathRound(Times(Divide(sent, total), 100))

\* what the status command prints, from the lengths of the four listings
statusReport(drafts, approved, sent, skipped) ==
  LET total == drafts + approved + sent + skipped
  IN  [drafts |-> drafts, approved |-> approved, sent |-> sent,
       skipped |-> skipped, total |-> total,
       progress |-> IF total > 0 THEN progress(sent, total) ELSE 0 - 1]

\* the status command on folders of any sizes up to MaxCount
Status ==
  /\ pc = "idle"
  /\ fn = NoCall
  /\ \E drafts \in 0..MaxCount, approved \in 0..1, sent \in 0..MaxCount,
        skipped \in 0..1 :
       fn' = [op |-> "status",
              listed |-> [drafts |-> drafts, approved |-> approved,
                          sent |-> sent, skipped |-> skipped],
              ret |-> statusReport(drafts, approved, sent, skipped)]
  /\ UNCHANGED <<store, pc, gen, snd, rev, edits, snap, trace, awardFiles, staging, exp, provider>>

\* the command that made the query has printed its result and ended
QueryReturn ==
  /\ pc = "idle"
  /\ fn # NoCall
  /\ fn' = NoCall
  /\ UNCHANGED <<store, pc, gen, snd, rev, edits, snap, trace, awardFiles, staging, exp, provider>>

\* ------------------------------------------------------ explore session
ExploreKeys == {"q", "right", "left", "s", "e"}

ExpIdle == [awards |-> <<>>, ids |-> <<>>, keywords |-> <<>>, currentIndex |-> 0,
            running |-> FALSE, editWait |-> 0]

\* an element of the session's list: the parsed file with the normalized
\* fields loadAwards (or the reload after an edit) has set on it
Loaded(raw, id) == [file |-> raw, award |-> normalize(raw, id)]

\* current.awd_id || current.awardNumber || current._id
ExploreIdOf(current) ==
  OrId(current.file.awd_id, OrId(current.award.awardNumber, current.award._id))

\* { ...current, _staged_at, _staged_from_year }
awardToSave(current) ==
  [current.file EXCEPT !.awardNumber = current.award.awardNumber,
                       !.title = current.award.title,
                       !.abstractText = current.award.abstractText,
                       !.staged = TRUE]

\* startExplore(year, keywords) up to the registration of the keypress
\* listener; it returns at once when no award is loaded
ExploreStart ==
  /\ pc = "idle"
  /\ fn = NoCall
  /\ \E ids \in Orders(listAwardIds(awardFiles)), keywords \in KeywordLists :
       LET awards == loadAwards(awardFiles, ids, keywords)
       IN  IF Len(awards) = 0
           THEN UNCHANGED <<pc, exp>>
           ELSE /\ pc' = "explore"
                /\ exp' = [ExpIdle EXCEPT
                             !.awards = [k \in 1..Len(awards) |->
                                           Loaded(awardFiles[awards[k]._id],
                                                  awards[k]._id)],
                             !.ids = ids, !.keywords = keywords,
                             !.running = TRUE]
  /\ UNCHANGED <<store, gen, snd, rev, edits, snap, trace, awardFiles, staging, fn, provider>>

\* what an editor session can leave in an award file: text that does not
\* parse, or award 1 under the API's field names
ExploreEdits == {CorruptAward, RawAward(0, 1, NoString, <<"A", "b">>, ValidEmail)}

ExploreOutcome(x, files, stg, ed) ==
  [exp |-> x, awardFiles |-> files, staging |-> stg, edits |-> ed]

\* the edit branch: the editor runs on awards/<year>/<awardId>.json, then a
\* one-shot keypress listener is registered
exploreEditKey(x, files, stg, ed) ==
  LET awardId == ExploreIdOf(x.awards[x.currentIndex + 1])
      waiting == [x EXCEPT !.editWait = awardId]
  IN  IF files[awardId] = NoAward THEN {ExploreOutcome(x, files, stg, ed)}
      ELSE {ExploreOutcome(waiting, files, stg, ed)}
             \cup {ExploreOutcome(waiting, [files EXCEPT ![awardId] = content],
                                  stg, ed + 1) :
                     content \in {c \in ExploreEdits :
                                    ed < MaxEdits /\ c # files[awardId]}}

\* handleKeypress(str, key) of the explore session; the pauses after a save
\* or a failed edit end in refresh(), which changes nothing here (the list
\* never shrinks and the index stays inside it)
exploreKeypress(key, x, files, stg, ed) ==
  IF ~x.running THEN {ExploreOutcome(x, files, stg, ed)}
  ELSE IF key = "q" THEN {ExploreOutcome([x EXCEPT !.running = FALSE], files, stg, ed)}
  ELSE IF key = "right"
  THEN {ExploreOutcome([x EXCEPT !.currentIndex = Min(@ + 1, Len(x.awards) - 1)],
                       files, stg, ed)}
  ELSE IF key = "left"
  THEN {ExploreOutcome([x EXCEPT !.currentIndex = Max(@ - 1, 0)], files, stg, ed)}
  ELSE IF key = "s"
  THEN LET current == x.awards[x.currentIndex + 1]
       IN  {ExploreOutcome(x, files,
                           [stg EXCEPT ![ExploreIdOf(current)] = awardToSave(current)],
                           ed)}
  ELSE IF key = "e" THEN exploreEditKey(x, files, stg, ed)
  ELSE {ExploreOutcome(x, files, stg, ed)}

\* the one-shot listener of a pending edit: reload the file into the
\* current position when it parses
exploreEditDone(awardId, o) ==
  IF o.awardFiles[awardId].kind # "award" THEN o
  ELSE [o EXCEPT !.exp.awards[o.exp.currentIndex + 1] =
                    Loaded(o.awardFiles[awardId], awardId)]

\* a key reaches the process: handleKeypress runs, then the one-shot
\* listener that was pending when the key arrived; after quit the process
\* ends
ExploreKeypress ==
  /\ pc = "explore"
  /\ \E key \in ExploreKeys :
       LET pending == exp.editWait
           cleared == [exp EXCEPT !.editWait = 0]
       IN  \E o1 \in exploreKeypress(key, cleared, awardFiles, staging, edits) :
             LET o == IF pending # 0 THEN exploreEditDone(pending, o1) ELSE o1
             IN  /\ awardFiles' = o.awardFiles
                 /\ staging' = o.staging
                 /\ edits' = o.edits
                 /\ IF o.exp.running
                    THEN /\ pc' = "explore"
                         /\ exp' = o.exp
                    ELSE /\ pc' = "idle"
                         /\ exp' = ExpIdle
  /\ UNCHANGED <<store, gen, snd, rev, snap, trace, fn, provider>>

\* ------------------------------------------------------- specifications
\* no command is running
Idle ==
  /\ pc = "idle"
  /\ gen = GenIdle
  /\ snd = SndIdle
  /\ rev = RevIdle
  /\ snap = EmptyStore
  /\ trace = <<>>
  /\ provider = {}
  /\ fn = NoCall
  /\ exp = ExpIdle

\* no award files on disk, nothing staged
NoAwardFiles ==
  /\ awardFiles = EmptyDir
  /\ staging = EmptyDir

\* The pipeline: all three commands, one after the other, from empty folders.
Init ==
  /\ store = EmptyStore
  /\ edits = 0
  /\ NoAwardFiles
  /\ Idle

Next ==
  \/ GenStartPipeline
  \/ GenCheck
  \/ GenResponse
  \/ GenReturn
  \/ SendStart
  \/ SendEmail
  \/ SendResponse
  \/ MarkWrite
  \/ MarkUnlink
  \/ SendWake
  \/ SendReturn
  \/ ReviewStart
  \/ Keypress
  \/ TimerFire
  \/ ReviewExit

Spec == Init /\ [][Next]_vars

\* the record the pipeline leaves in a folder for an award with a PI e-mail
SeedRecord(id, folder) ==
  IF folder = "sent"
  THEN updatedEmail(NewDraft(Award(id, ValidEmail)), "re_1")
  ELSE NewDraft(Award(id, ValidEmail))

\* what a file of a status folder can hold in the checks of moveFile
MoveContents ==
  {NoFile, SeedRecord(1, "drafts"), edited(SeedRecord(1, "drafts"), "body"),
   SeedRecord(1, "sent")}

\* The generator alone, run any number of times on folders the pipeline has
\* filled: awards 1 and 2 are each unprocessed or in one of the four folders.
GenSeeds ==
  {[f \in StatusFolders |->
      [id \in Ids |-> IF id \in DOMAIN place /\ place[id] = f
                      THEN SeedRecord(id, f) ELSE NoFile]] :
     place \in [{1, 2} -> StatusFolders \cup {"none"}]}

InitGen ==
  /\ store \in GenSeeds
  /\ edits = 0
  /\ NoAwardFiles
  /\ Idle

NextGen ==
  \/ GenStart
  \/ GenCheck
  \/ GenResponse
  \/ GenReturn

SpecGen == InitGen /\ [][NextGen]_vars

\* The sender alone, run any number of times on an approved folder the
\* pipeline has filled: records 1..n approved, each as generated or as an
\* editor session left it (kinds[id] is "none" for a record never edited).
SendSeed(n, kinds) ==
  [f \in StatusFolders |->
     [id \in Ids |-> IF f # "approved" \/ id > n THEN NoFile
                     ELSE IF kinds[id] = "none" THEN SeedRecord(id, f)
                     ELSE edited(SeedRecord(id, f), kinds[id])]]

InitSend ==
  /\ \E n \in 0..NumAwards : \E kinds \in [1..n -> EditKinds \cup {"none"}] :
       /\ edits = Cardinality({id \in 1..n : kinds[id] # "none"})
       /\ edits <= MaxEdits
       /\ store = SendSeed(n, kinds)
  /\ NoAwardFiles
  /\ Idle

NextSend ==
  \/ SendStart
  \/ SendEmail
  \/ SendResponse
  \/ MarkWrite
  \/ MarkUnlink
  \/ SendWake
  \/ SendReturn

SpecSend == InitSend /\ [][NextSend]_vars

\* The sender with a failing file system and a process that can be killed,
\* on approved folders of up to PipelineAwards records.
InitFault ==
  /\ \E n \in 0..PipelineAwards : \E kinds \in [1..n -> EditKinds \cup {"none"}] :
       /\ edits = Cardinality({id \in 1..n : kinds[id] # "none"})
       /\ edits <= MaxEdits
       /\ store = SendSeed(n, kinds)
  /\ NoAwardFiles
  /\ Idle

NextFault ==
  \/ SendStart
  \/ SendEmail
  \/ SendResponse
  \/ MarkWrite
  \/ MarkUnlink
  \/ MarkWriteThrows
  \/ MarkUnlinkThrows
  \/ SendCrash
  \/ SendWake
  \/ SendReturn

SpecFault == InitFault /\ [][NextFault]_vars

\* moveFile(filename, fromFolder, toFolder) on its own, between two different
\* folders, for an id that has a file somewhere; a missing source throws and
\* changes nothing
MoveFileCall ==
  /\ pc = "idle"
  /\ fn = NoCall
  /\ \E id \in Ids, fromFolder \in StatusFolders, toFolder \in StatusFolders :
       /\ FoldersOf(store, id) # {}
       /\ fromFolder # toFolder
       /\ fn' = [op |-> "moveFile", id |-> id, fromFolder |-> fromFolder,
                 toFolder |-> toFolder, data |-> store[fromFolder][id],
                 threw |-> moveFileThrows(store, id, fromFolder)]
       /\ store' = IF moveFileThrows(store, id, fromFolder) THEN store
                   ELSE moveFile(store, id, fromFolder, toFolder)
  /\ snap' = store
  /\ UNCHANGED <<pc, gen, snd, rev, edits, trace, awardFiles, staging, exp, provider>>

\* writeJson(filepath, data) on its own, for a file of a status folder and
\* an id that has a file somewhere
WriteJsonCall ==
  /\ pc = "idle"
  /\ fn = NoCall
  /\ \E id \in Ids, folder \in StatusFolders, data \in MoveContents \ {NoFile} :
       /\ FoldersOf(store, id) # {}
       /\ fn' = [op |-> "writeJson", id |-> id, fromFolder |-> folder,
                 toFolder |-> folder, data |-> data, threw |-> FALSE]
       /\ store' = writeJson(store, folder, id, data)
  /\ snap' = store
  /\ UNCHANGED <<pc, gen, snd, rev, edits, trace, awardFiles, staging, exp, provider>>

\* the call is over
MoveReturn ==
  /\ fn # NoCall
  /\ fn' = NoCall
  /\ snap' = EmptyStore
  /\ UNCHANGED <<store, pc, gen, snd, rev, edits, trace, awardFiles, staging, exp, provider>>

\* moveFile and writeJson alone, on folders in which award 1 has any of three
\* contents, or no file, in each of the four folders.
MoveSeeds ==
  {[f \in StatusFolders |-> [id \in Ids |-> IF id = 1 THEN c[f] ELSE NoFile]] :
     c \in [StatusFolders -> MoveContents]}

InitMove ==
  /\ store \in MoveSeeds
  /\ edits = 0
  /\ NoAwardFiles
  /\ Idle

NextMove ==
  \/ MoveFileCall
  \/ WriteJsonCall
  \/ MoveReturn

SpecMove == InitMove /\ [][NextMove]_vars

\* The sender invoked again and again by the operator, never as a dry run,
\* with the limit FixedLimit, a complete configuration and a provider that
\* confirms every call it receives; a record without a recipient fails in
\* sendEmail on every attempt.
SendStartFixed ==
  /\ SendStart
  /\ snd'.limit = FixedLimit
  /\ ~snd'.dryRun
  /\ pc' # "send_threw"

SendResponseOk ==
  /\ SendResponse
  /\ pc' = "mark_write"

\* records 1..n approved, each as generated or with its recipient removed by
\* an editor session
InitRepeat ==
  /\ \E n \in 0..NumAwards : \E kinds \in [1..n -> {"none", "no_recipient"}] :
       /\ edits = Cardinality({id \in 1..n : kinds[id] # "none"})
       /\ store = SendSeed(n, kinds)
  /\ NoAwardFiles
  /\ Idle

NextRepeat ==
  \/ SendStartFixed
  \/ SendEmail
  \/ SendResponseOk
  \/ MarkWrite
  \/ MarkUnlink
  \/ SendWake
  \/ SendReturn

\* every started step completes and the operator keeps invoking the command
SpecRepeat == InitRepeat /\ [][NextRepeat]_vars /\ WF_vars(NextRepeat)

\* The review session alone, run any number of times on folders the pipeline
\* has filled, next to a second session that moves drafts.
InitReview ==
  /\ store \in GenSeeds
  /\ edits = 0
  /\ NoAwardFiles
  /\ Idle

NextReview ==
  \/ ReviewStart
  \/ Keypress
  \/ TimerFire
  \/ ReviewExit
  \/ OtherReviewMoves

SpecReview == InitReview /\ [][NextReview]_vars

\* The queries and the explore session, on status folders the pipeline has
\* filled and a year's folder of up to MaxFiles award files.
AwardDirs ==
  {dir \in [Ids -> AwardFileContents \cup {NoAward}] :
     Cardinality(listAwardIds(dir)) <= MaxFiles}

InitQueries ==
  /\ store \in GenSeeds
  /\ edits = 0
  /\ awardFiles \in AwardDirs
  /\ staging = EmptyDir
  /\ Idle

NextQueries ==
  \/ ScanUnprocessed
  \/ QueryReturn

SpecQueries == InitQueries /\ [][NextQueries]_vars

\* The explore session alone, run any number of times, on a year's folder
\* with files 1.json and 2.json at most, with award 1 drafted and every other
\* award unprocessed.
ExploreSeeds ==
  {st \in GenSeeds : \A f \in StatusFolders :
     /\ st[f][2] = NoFile
     /\ st[f][1] # NoFile <=> f = "drafts"}

ExploreDirs == {dir \in AwardDirs : listAwardIds(dir) \subseteq {1, 2}}

InitExplore ==
  /\ store \in ExploreSeeds
  /\ edits = 0
  /\ awardFiles \in ExploreDirs
  /\ staging = EmptyDir
  /\ Idle

NextExplore ==
  \/ ExploreStart
  \/ ExploreKeypress

SpecExplore == InitExplore /\ [][NextExplore]_vars

\* The status command alone.
NextStatus ==
  \/ Status
  \/ QueryReturn

SpecStatus == Init /\ [][NextStatus]_vars

\* Variant selection alone, on every variants.json of the bounded shape.
NextVariants ==
  \/ SelectVariantsCall
  \/ QueryReturn

SpecVariants == Init /\ [][NextVariants]_vars

\* loadAwards alone, on every content of the one award file, with award 2
\* unprocessed or drafted.
LoadSeeds ==
  {st \in GenSeeds : \A f \in StatusFolders :
     /\ st[f][1] = NoFile
     /\ st[f][2] # NoFile => f = "drafts"}

InitLoad ==
  /\ store \in LoadSeeds
  /\ edits = 0
  /\ awardFiles \in LoadDirs
  /\ staging = EmptyDir
  /\ Idle

NextLoad ==
  \/ LoadAwardsCall
  \/ QueryReturn

SpecLoad == InitLoad /\ [][NextLoad]_vars

\* ================================================================ claims
GenPcs == {"gen_check", "gen_call", "gen_done"}
SendPcs == {"send_email", "send_call", "mark_write", "mark_unlink",
            "send_sleep", "send_done"}

\* the record whose loop iteration is running
CurrentEmail == snd.toSend[snd.i + 1]
CurrentAward == gen.toProcess[gen.i + 1]

\* an award with no PI e-mail, or one without an "@"
NoContact(award) == award.piEmail = NoString \/ ~Includes(award.piEmail, "@")

\* a facet all of whose items are marked disabled
EmptyFacet(all) ==
  \E items \in {all.templates, all.ouro_descriptions, all.call_to_actions} :
    \A k \in 1..Len(items) : items[k].enabled = "false"

Count(seq, P(_)) == Cardinality({k \in 1..Len(seq) : P(seq[k])})

\* C1 (as stated): in every state, intermediate ones included, every award
\* id has a file in at most one of drafts, approved, sent, skipped.
C1_ExclusiveAtEveryState ==
  \A id \in Ids : Cardinality(FoldersOf(store, id)) <= 1

\* C1 (amended): every award id is in at most one collection, except that the
\* record markAsSent is handling is in both approved and sent between the
\* write into sent and the delete from approved.
C1_ExclusiveOutsideMarkAsSent ==
  \A id \in Ids :
    \/ Cardinality(FoldersOf(store, id)) <= 1
    \/ /\ pc = "mark_unlink"
       /\ id = CurrentEmail.award_id
       /\ FoldersOf(store, id) = {"approved", "sent"}

C1_Witness ==
  /\ pc = "mark_unlink"
  /\ FoldersOf(store, CurrentEmail.award_id) = {"approved", "sent"}
  /\ FilesIn("drafts") # {}

\* C2: in a non-dry-run send every failed record is listed in errors with its
\* award id, recipient and error, its approved file is as it was and nothing
\* is in sent for it; every delivered record is only in sent; the loop handles
\* every selected record.
C2_FailureLeavesApprovedAndLoopGoesOn ==
  (pc \in SendPcs /\ ~snd.dryRun) =>
    /\ \A k \in 1..Len(snd.errors) :
         LET en == snd.errors[k]
         IN  /\ \E j \in 1..snd.i : /\ snd.toSend[j].award_id = en.awardId
                                    /\ snd.toSend[j].pi_email = en.recipient
             /\ en.error \in {"error_payload", "throws", "no_recipient"}
             /\ store["approved"][en.awardId] # NoFile
             /\ store["approved"][en.awardId] = snap["approved"][en.awardId]
             /\ store["sent"][en.awardId] = NoFile
    /\ \A k \in 1..Len(snd.sent) :
         FoldersOf(store, snd.sent[k].awardId) = {"sent"}
    /\ \A k \in 1..Len(trace) :
         (trace[k].e = "deliver" /\ trace[k].k <= snd.i) =>
           \/ \E j \in 1..Len(snd.sent) : snd.sent[j].awardId = trace[k].id
           \/ \E j \in 1..Len(snd.errors) : snd.errors[j].awardId = trace[k].id
    /\ Len(snd.sent) + Len(snd.errors) = snd.i + (IF pc = "send_sleep" THEN 1 ELSE 0)
    /\ pc = "send_done" => snd.i = Len(snd.toSend)

C2_Witness ==
  /\ pc = "send_done"
  /\ ~snd.dryRun
  /\ snd.limit = 2
  /\ Cardinality({id \in Ids : snap["approved"][id] # NoFile}) = 3
  /\ Len(snd.sent) = 1
  /\ Len(snd.errors) = 1
  /\ snd.errors[1].awardId = snd.toSend[2].award_id
  /\ snd.errors[1].error \in {"error_payload", "throws"}
  /\ Cardinality(FilesIn("approved")) = 2

\* C3: a dry run makes no delivery call and leaves all four collections as
\* they were; each selected record with a recipient is reported as a
\* synthesized success (no confirmation id), the others as errors.
C3_DryRunChangesNothing ==
  (pc \in SendPcs /\ snd.dryRun) =>
    /\ store = snap
    /\ trace = <<>>
    /\ pc = "send_done" =>
         LET with == SelectSeq(snd.toSend, LAMBDA em : em.pi_email # NoString)
             without == SelectSeq(snd.toSend, LAMBDA em : em.pi_email = NoString)
         IN  /\ Len(snd.sent) = Len(with)
             /\ \A k \in 1..Len(with) :
                  snd.sent[k] = [awardId |-> with[k].award_id,
                                 recipient |-> with[k].pi_email, resendId |-> Null]
             /\ Len(snd.errors) = Len(without)
             /\ \A k \in 1..Len(without) : snd.errors[k].awardId = without[k].award_id

C3_Witness ==
  /\ pc = "send_done"
  /\ snd.dryRun
  /\ Len(snd.sent) >= 1
  /\ Len(snd.errors) >= 1
  /\ Cardinality(FilesIn("approved")) >= 2

\* C4 (as stated): with a positive delay, a non-dry-run invocation sleeps
\* exactly once between every two consecutive delivery calls whatever the
\* earlier call's outcome, never after the last selected record, and a dry run
\* never sleeps.
C4_SleepBetweenEveryTwoCalls ==
  /\ (pc \in SendPcs /\ ~snd.dryRun /\ snd.delay > 0) =>
       /\ \A k \in 1..(Len(trace) - 1) :
            /\ trace[k].e = "deliver" => trace[k + 1].e = "sleep"
            /\ trace[k].e = "sleep" => trace[k + 1].e = "deliver"
       /\ \A k \in 1..Len(trace) :
            trace[k].e = "sleep" => trace[k].k < Len(snd.toSend)
  /\ (pc \in SendPcs /\ snd.dryRun) =>
       \A k \in 1..Len(trace) : trace[k].e # "sleep"

\* C5: a non-dry-run send without a credential or without a sender address
\* throws before reading approved, before any delivery call and before any
\* write or delete; a dry run never throws for either reason.
C5_ConfigErrorBeforeAnyWork ==
  /\ pc = "send_threw" =>
       /\ ~snd.dryRun
       /\ ~snd.apiKey \/ snd.fromEmail = NoString
       /\ snd.toSend = <<>> /\ snd.sent = <<>> /\ snd.errors = <<>>
       /\ trace = <<>>
       /\ store = snap
  /\ (pc \in SendPcs /\ ~snd.dryRun) => (snd.apiKey /\ snd.fromEmail # NoString)

C5_Witness ==
  /\ pc = "send_threw"
  /\ snd.apiKey
  /\ snd.fromEmail = NoString
  /\ FilesIn("approved") # {}

\* C6: no text-generation call is issued and no draft is written for an award
\* without a PI e-mail or with an e-mail lacking "@"; the award is reported in
\* errors.
C6_NoGenerationWithoutContact ==
  pc \in GenPcs =>
    /\ \A k \in 1..Len(trace) :
         trace[k].e = "model" => ~NoContact(gen.toProcess[trace[k].k])
    /\ pc = "gen_call" => ~NoContact(CurrentAward)
    /\ \A id \in Ids :
         store["drafts"][id] # snap["drafts"][id] =>
           \E k \in 1..Len(trace) :
             /\ trace[k].e = "model" /\ trace[k].id = id
             /\ store["drafts"][id].pi_email = gen.toProcess[trace[k].k].piEmail
    /\ \A id \in Ids :
         Count(SubSeq(gen.toProcess, 1, gen.i),
               LAMBDA a : NoContact(a) /\ AwardIdOf(a) = id)
           = Count(gen.errors,
                   LAMBDA en : en.error = "invalid_contact" /\ en.awardId = id)

C6_Witness ==
  /\ pc = "gen_done"
  /\ Len(gen.toProcess) = 2
  /\ gen.toProcess[1].piEmail = NoAtEmail
  /\ gen.errors = <<[awardId |-> AwardIdOf(gen.toProcess[1]), error |-> "invalid_contact"]>>
  /\ Len(gen.generated) = 1

\* C7: generateEmails issues no model call and writes no draft for an award id
\* already in drafts, approved, sent or skipped, ids drafted earlier in the
\* same batch included; records that existed are untouched and every id stays
\* in at most one collection.
C7_NoGenerationForProcessedId ==
  pc \in GenPcs =>
    /\ pc = "gen_call" => FoldersOf(store, AwardIdOf(CurrentAward)) = {}
    /\ \A k \in 1..Len(trace) :
         trace[k].e = "model" => FoldersOf(snap, trace[k].id) = {}
    /\ \A f \in StatusFolders, id \in Ids :
         snap[f][id] # NoFile => store[f][id] = snap[f][id]
    /\ \A id \in Ids : Cardinality(FoldersOf(store, id)) <= 1
    /\ \A a, b \in 1..Len(gen.generated) :
         gen.generated[a] = gen.generated[b] => a = b

C7_Witness ==
  /\ pc = "gen_done"
  /\ Len(gen.toProcess) = 2
  /\ gen.toProcess[1] = gen.toProcess[2]
  /\ gen.generated = <<AwardIdOf(gen.toProcess[1])>>
  /\ gen.errors = <<[awardId |-> AwardIdOf(gen.toProcess[2]), error |-> "already_processed"]>>
  /\ FilesIn("approved") # {}

\* C8: every selected award ends in exactly one of generated or errors, a
\* failure does not stop the loop, and an id is in generated exactly when its
\* draft was written by this batch.
C8_EveryAwardAccountedFor ==
  pc \in GenPcs =>
    /\ Len(gen.generated) + Len(gen.errors) = gen.i
    /\ pc = "gen_done" => gen.i = Len(gen.toProcess)
    /\ \A id \in Ids :
         Count(SubSeq(gen.toProcess, 1, gen.i), LAMBDA a : AwardIdOf(a) = id)
           = Count(gen.generated, LAMBDA g : g = id)
               + Count(gen.errors, LAMBDA en : en.awardId = id)
    /\ Range(gen.generated) = {id \in Ids : store["drafts"][id] # snap["drafts"][id]}
    /\ Len(gen.generated) = Cardinality(Range(gen.generated))

C8_Witness ==
  /\ pc = "gen_done"
  /\ Len(gen.toProcess) = 2
  /\ gen.errors = <<[awardId |-> AwardIdOf(gen.toProcess[1]), error |-> "api_error"]>>
  /\ gen.generated = <<AwardIdOf(gen.toProcess[2])>>
  /\ AwardIdOf(gen.toProcess[1]) # AwardIdOf(gen.toProcess[2])

\* C9 (as stated): with a facet that has no enabled item the batch is aborted
\* before any award is processed and no per-award error is recorded.
C9_EmptyFacetAbortsBatch ==
  (pc \in GenPcs /\ EmptyFacet(gen.variants)) => (gen.i = 0 /\ gen.errors = <<>>)

\* C9 (amended): with a facet that has no enabled item, every selected award
\* is processed and gets a per-award error (invalid contact, already
\* processed, else the missing-variant error); no model call is issued and no
\* draft is written.
C9_EmptyFacetIsPerAwardError ==
  (pc \in GenPcs /\ EmptyFacet(gen.variants)) =>
    /\ trace = <<>>
    /\ store = snap
    /\ gen.generated = <<>>
    /\ Len(gen.errors) = gen.i
    /\ pc = "gen_done" => gen.i = Len(gen.toProcess)
    /\ \A k \in 1..gen.i :
         /\ gen.errors[k].awardId = AwardIdOf(gen.toProcess[k])
         /\ gen.errors[k].error =
              (IF NoContact(gen.toProcess[k]) THEN "invalid_contact"
               ELSE IF FoldersOf(snap, AwardIdOf(gen.toProcess[k])) # {}
               THEN "already_processed" ELSE "no_enabled_variants")

C9_Witness ==
  /\ pc = "gen_done"
  /\ EmptyFacet(gen.variants)
  /\ Len(gen.toProcess) = 2
  /\ \A k \in 1..2 : gen.errors[k].error = "no_enabled_variants"

\* C10: a record's collection changes only by drafts -> approved (approve,
\* session on drafts), drafts -> skipped (skip, session on drafts) and
\* approved -> sent (markAsSent after a confirmed delivery: written into sent,
\* then removed from approved); a new id enters through drafts only; nothing
\* leaves skipped or sent.
C10_Step(id) ==
  LET was == FoldersOf(store, id)
      is == FoldersOf(store', id)
  IN  \/ is = was
      \/ was = {} /\ is = {"drafts"} /\ pc = "gen_call"
      \/ /\ was = {"drafts"} /\ is = {"approved"}
         /\ pc = "review" /\ rev.folder = "drafts"
         /\ store'["approved"][id] = store["drafts"][id]
      \/ /\ was = {"drafts"} /\ is = {"skipped"}
         /\ pc = "review" /\ rev.folder = "drafts"
         /\ store'["skipped"][id] = store["drafts"][id]
      \/ /\ was = {"approved"} /\ is = {"approved", "sent"}
         /\ pc = "mark_write" /\ ~snd.dryRun
         /\ trace[Len(trace)] = [e |-> "deliver", id |-> id, k |-> snd.i + 1]
      \/ was = {"approved", "sent"} /\ is = {"sent"} /\ pc = "mark_unlink"

C10_OnlyForwardTransitions ==
  [][\A id \in Ids : C10_Step(id)]_vars

C10_Witness ==
  /\ FilesIn("sent") # {}
  /\ FilesIn("skipped") # {}
  /\ pc = "review"
  /\ rev.folder = "sent"

\* C11 (as stated): the edit action, from the keypress 'e' through the
\* keypress that ends the wait and the refresh after it, leaves every award id
\* in the collection it was in.
C11_EditStep ==
  (pc = "review" /\ (rev.editWait # 0 \/ (pc' = "review" /\ rev'.editWait # 0))) =>
    \A id \in Ids : FoldersOf(store', id) = FoldersOf(store, id)

C11_EditKeepsMembership == [][C11_EditStep]_vars

\* C12 (as stated): once a record is in sent, no step of any command changes
\* its content or removes it from sent.
C12_SentStep ==
  \A id \in Ids :
    store["sent"][id] # NoFile => store'["sent"][id] = store["sent"][id]

C12_SentIsImmutable == [][C12_SentStep]_vars

\* C13: a record in drafts, approved or skipped has sent_at and resend_id
\* null and a record in sent has a sent_at; a sent_at is assigned only by
\* markAsSent's write into sent, only after the delivery call for that record
\* returned a confirmation, and only where no sent record was before.
C13_Fields ==
  /\ \A f \in {"drafts", "approved", "skipped"}, id \in Ids :
       store[f][id].kind = "record" =>
         (store[f][id].sent_at = Null /\ store[f][id].resend_id = Null)
  /\ \A id \in Ids :
       store["sent"][id].kind = "record" => store["sent"][id].sent_at # Null

C13_AssignStep ==
  \A f \in StatusFolders, id \in Ids :
    (store'[f][id].sent_at # Null /\ store'[f][id].sent_at # store[f][id].sent_at) =>
      /\ pc = "mark_write" /\ pc' = "mark_unlink"
      /\ f = "sent"
      /\ id = CurrentEmail.award_id
      /\ ~snd.dryRun
      /\ snd.resendId # Null
      /\ trace[Len(trace)] = [e |-> "deliver", id |-> id, k |-> snd.i + 1]
      /\ store["sent"][id] = NoFile

C13_SentAtOnlyByMarkAsSent == []C13_Fields /\ [][C13_AssignStep]_vars

C13_Witness ==
  /\ pc = "mark_unlink"
  /\ store["sent"][CurrentEmail.award_id].sent_at = Now
  /\ store["sent"][CurrentEmail.award_id].resend_id = "re_1"
  /\ store["sent"][CurrentEmail.award_id].body = 1
  /\ FilesIn("skipped") # {}

\* C14: in a non-dry-run send a file appears in sent only for a record whose
\* delivery call returned a confirmation; once the iteration is over the sent
\* file is the approved record with sent_at and the confirmation id as
\* resend_id, and approved no longer holds it.
C14_SentOnlyAfterConfirmation ==
  (pc \in SendPcs /\ ~snd.dryRun) =>
    /\ \A id \in Ids :
         store["sent"][id] # snap["sent"][id] =>
           \/ \E j \in 1..Len(snd.sent) : snd.sent[j].awardId = id
           \/ /\ pc = "mark_unlink"
              /\ id = CurrentEmail.award_id
              /\ snd.resendId \in ProviderIds
              /\ trace[Len(trace)] = [e |-> "deliver", id |-> id, k |-> snd.i + 1]
    /\ \A j \in 1..Len(snd.sent) :
         LET id == snd.sent[j].awardId
         IN  /\ snd.sent[j].resendId \in ProviderIds
             /\ store["sent"][id].kind = "record"
             /\ store["sent"][id].resend_id = snd.sent[j].resendId
             /\ store["sent"][id] =
                  [snap["approved"][id] EXCEPT !.sent_at = Now,
                                               !.resend_id = snd.sent[j].resendId]
             /\ store["approved"][id] = NoFile
             /\ \E k \in 1..Len(trace) : trace[k].e = "deliver" /\ trace[k].id = id

C14_Witness ==
  /\ pc = "send_done"
  /\ ~snd.dryRun
  /\ Len(snd.sent) = 2
  /\ Len(snd.errors) = 1
  /\ snd.errors[1].awardId = snd.toSend[1].award_id
  /\ Cardinality(FilesIn("sent")) = 2

\* C15: getUnprocessedAwards returns exactly the awards loadAwards returns
\* whose id has no file in drafts, approved, sent or skipped, in loadAwards'
\* order, whatever the folders hold.
C15_UnprocessedIsLoadedMinusProcessed ==
  fn.op = "getUnprocessedAwards" =>
    LET loaded == loadAwards(awardFiles, fn.ids, fn.keywords)
    IN  /\ fn.ret = SelectSeq(loaded, LAMBDA award :
                      FoldersOf(store, award.awardNumber) = {})
        /\ \A k \in 1..Len(loaded) :
             (\E j \in 1..Len(fn.ret) : fn.ret[j] = loaded[k])
               <=> \A f \in StatusFolders : store[f][loaded[k].awardNumber] = NoFile

C15_Witness ==
  /\ fn.op = "getUnprocessedAwards"
  /\ Len(fn.ret) = 1
  /\ Len(loadAwards(awardFiles, fn.ids, fn.keywords)) = 2
  /\ fn.ret[1].awardNumber # fn.ret[1]._id
  /\ FilesIn("skipped") # {}
  /\ FilesIn("skipped") \subseteq
       {loadAwards(awardFiles, fn.ids, fn.keywords)[k].awardNumber : k \in 1..2}

\* C16: selectVariants returns, for each facet, an item of that facet that is
\* not marked disabled, an item without the field counting as enabled; it
\* throws exactly when some facet has no such item.
C16_Enabled(items, item) ==
  /\ \E k \in 1..Len(items) : items[k] = item
  /\ item.enabled \in {"true", "absent"}

C16_NeverSelectsDisabled ==
  fn.op = "selectVariants" =>
    /\ fn.threw <=> EmptyFacet(fn.all)
    /\ ~fn.threw =>
         /\ C16_Enabled(fn.all.templates, fn.ret.template)
         /\ C16_Enabled(fn.all.ouro_descriptions, fn.ret.ouro_description)
         /\ C16_Enabled(fn.all.call_to_actions, fn.ret.call_to_action)

C16_Witness ==
  /\ fn.op = "selectVariants"
  /\ ~fn.threw
  /\ fn.all.templates = <<Item(1, "true"), Item(2, "true")>>
  /\ fn.all.ouro_descriptions = <<Item(1, "false"), Item(2, "absent")>>
  /\ fn.all.call_to_actions = <<Item(1, "true")>>
  /\ fn.ret.ouro_description = Item(2, "absent")
  /\ fn.ret.template = Item(2, "true")

\* C17 (as stated): the status command reports the number of files of each
\* of the four folders and, for a positive total, progress as
\* round(100 * sent / total), a value between 0 and 100.
C17_ProgressIsRounded ==
  fn.op = "status" =>
    /\ fn.ret.drafts = fn.listed.drafts
    /\ fn.ret.approved = fn.listed.approved
    /\ fn.ret.sent = fn.listed.sent
    /\ fn.ret.skipped = fn.listed.skipped
    /\ fn.ret.total = fn.listed.drafts + fn.listed.approved + fn.listed.sent
                        + fn.listed.skipped
    /\ fn.ret.total > 0 =>
         /\ fn.ret.progress
              = (200 * fn.listed.sent + fn.ret.total) \div (2 * fn.ret.total)
         /\ fn.ret.progress >= 0
         /\ fn.ret.progress <= 100

\* C18 (as stated): sendApprovedEmails drops no record silently; when it
\* returns, the entries of result.sent and result.errors together number
\* min(limit, n) for the n ids listed in approved at invocation, and no award
\* id has more than one entry.
C18_NoSilentDrops ==
  pc = "send_done" =>
    LET n == Cardinality({id \in Ids : snap["approved"][id] # NoFile})
        entries == snd.sent \o snd.errors
    IN  /\ Len(snd.sent) + Len(snd.errors) = Min(snd.limit, n)
        /\ \A j, k \in 1..Len(entries) :
             entries[j].awardId = entries[k].awardId => j = k

\* C19: a save to staging in the explore session writes staging only (the
\* four status folders and the award files are as before), and a staged id
\* does not count as processed: isAlreadyProcessed answers for it by the four
\* status folders alone, and an award with that id that loadAwards loads and
\* that has no file in the four folders is returned by getUnprocessedAwards.
C19_SaveStep ==
  (pc = "explore" /\ staging' # staging) =>
    /\ store' = store
    /\ awardFiles' = awardFiles
    /\ \E id \in Ids :
         /\ staging' = [staging EXCEPT ![id] = staging'[id]]
         /\ staging'[id].staged
         /\ id = ExploreIdOf(exp.awards[exp.currentIndex + 1])

C19_Staged ==
  pc = "explore" =>
    \A id \in Ids :
      staging[id].kind = "award" =>
        LET loaded == loadAwards(awardFiles, exp.ids, exp.keywords)
            unprocessed == getUnprocessedAwards(awardFiles, exp.ids, exp.keywords)
            inFolders == \E f \in StatusFolders : store[f][id] # NoFile
        IN  /\ isAlreadyProcessed(id) <=> inFolders
            /\ \A k \in 1..Len(loaded) :
                 (AwardIdOf(loaded[k]) = id /\ ~inFolders) =>
                   \E j \in 1..Len(unprocessed) : unprocessed[j] = loaded[k]

C19_StagingIsNotProcessed == []C19_Staged /\ [][C19_SaveStep]_vars

C19_Witness ==
  /\ pc = "explore"
  /\ \E id \in Ids :
       /\ staging[id].kind = "award"
       /\ staging[id].staged
       /\ ~isAlreadyProcessed(id)
       /\ \E k \in 1..Len(getUnprocessedAwards(awardFiles, exp.ids, exp.keywords)) :
            AwardIdOf(getUnprocessedAwards(awardFiles, exp.ids, exp.keywords)[k]) = id

\* what up to n editor sessions can make of a file
RECURSIVE C20_Edited(_, _)
C20_Edited(file, n) ==
  IF n = 0 THEN {file}
  ELSE LET before == C20_Edited(file, n - 1)
       IN  before \cup {edited(f, kind) : f \in before, kind \in EditKinds}

\* every file that was in drafts when the session started is in exactly one
\* of drafts, approved and skipped, whole: as it was, or as an editor saved it
C20_Whole ==
  \A id \in Ids :
    snap["drafts"][id] # NoFile =>
      /\ Cardinality({f \in {"drafts", "approved", "skipped"} : store[f][id] # NoFile}) = 1
      /\ \A f \in {"drafts", "approved", "skipped"} :
           store[f][id] # NoFile => store[f][id] \in C20_Edited(snap["drafts"][id], edits)

\* quit, and every step of the session after it, writes nothing
C20_QuitStep ==
  (pc = "review" /\ (~rev.running \/ (pc' = "review" /\ ~rev'.running))) =>
    store' = store

\* C20: at every point of a review session, the handlers' pauses included,
\* every record that was in drafts at session start is whole and in exactly
\* one of drafts, approved and skipped, and quitting (q or Ctrl-C) and the
\* steps that follow it change no folder.
C20_QuitLeavesNoPartialState ==
  [](pc = "review" => C20_Whole) /\ [][C20_QuitStep]_vars

C20_Witness ==
  /\ pc = "review"
  /\ rev.folder = "drafts"
  /\ ~rev.running
  /\ rev.resolved
  /\ rev.timers > 0
  /\ Len(rev.emails) > 0
  /\ FilesIn("approved") # {}
  /\ FilesIn("drafts") # {}
  /\ C20_Whole

\* the award loadAwards makes of the one file, and whether it returned it
C21_Loaded == normalize(awardFiles[1], 1)
C21_Retained == \E k \in 1..Len(fn.ret) : fn.ret[k] = C21_Loaded

\* some keyword occurs, case-insensitively, in text
C21_Occurs(text, keywords) ==
  \E k \in 1..Len(keywords) :
    IncludesStr(toLowerCase(text), toLowerCase(keywords[k]))

\* C21 (as stated): loadAwards retains an award if and only if the keyword
\* list is empty or some keyword occurs case-insensitively in the normalized
\* title followed by the abstract.
C21_RetainsIffInTitleAbstract ==
  (fn.op = "loadAwards" /\ awardFiles[1].kind = "award") =>
    (C21_Retained <=>
       \/ Len(fn.keywords) = 0
       \/ C21_Occurs(C21_Loaded.title \o C21_Loaded.abstractText, fn.keywords))

\* C21 (amended): loadAwards retains an award if and only if the keyword list
\* is empty or some keyword occurs case-insensitively in the normalized title,
\* one space, and the abstract; it returns nothing else.
C21_RetainsIffInTitleSpaceAbstract ==
  (fn.op = "loadAwards") =>
    /\ awardFiles[1].kind = "award" =>
         (C21_Retained <=>
            \/ Len(fn.keywords) = 0
            \/ C21_Occurs(C21_Loaded.title \o <<" ">> \o C21_Loaded.abstractText,
                          fn.keywords))
    /\ \A k \in 1..Len(fn.ret) : fn.ret[k] = C21_Loaded /\ awardFiles[1].kind = "award"
    /\ Len(fn.ret) <= 1

\* an award that matches no keyword of a non-empty list is left out
C21_Witness ==
  /\ fn.op = "loadAwards"
  /\ awardFiles[1].kind = "award"
  /\ fn.keywords = << <<"x">> >>
  /\ C21_Loaded.title = <<"A", "b">>
  /\ C21_Loaded.abstractText = <<"B", "a">>
  /\ ~C21_Retained

\* the session on drafts is running and shows an entry whose file has left
\* drafts
C22_FileGone ==
  /\ pc = "review"
  /\ rev.folder = "drafts"
  /\ rev.running
  /\ rev.listening
  /\ InRange(rev)
  /\ store["drafts"][rev.emails[rev.currentIndex + 1].id] = NoFile

\* approve and skip then change nothing: no folder, not the list, and the
\* session goes on
C22_Handler ==
  C22_FileGone =>
    \A key \in {"a", "s"} :
      handleKeypress(key, rev, store, edits) = {Outcome(rev, store, edits, FALSE)}

\* no step taken while the entry's file is gone creates or replaces that id
\* in approved or skipped, drops an entry from the list or ends the process
C22_Step ==
  (C22_FileGone /\ rev.editWait = 0) =>
    LET id == rev.emails[rev.currentIndex + 1].id
    IN  /\ store'["approved"][id] = store["approved"][id]
        /\ store'["skipped"][id] = store["skipped"][id]
        /\ store'["drafts"][id] = NoFile
        /\ pc' = "review"
        /\ rev'.emails = rev.emails

\* C22: approving or skipping a draft whose file is no longer in drafts
\* fails in moveFile: nothing is created in approved or skipped, every
\* folder is unchanged, the entry stays in the session's list and the
\* session keeps running.
C22_MissingDraftChangesNothing == []C22_Handler /\ [][C22_Step]_vars

C22_Witness ==
  /\ C22_FileGone
  /\ rev.editWait = 0
  /\ Len(rev.emails) = 2
  /\ FilesIn("approved") = {rev.emails[rev.currentIndex + 1].id}
  /\ handleKeypress("a", rev, store, edits) = {Outcome(rev, store, edits, FALSE)}

\* the first non-empty of two strings, else the empty string
C23_FirstStr(a, b) == IF a # NoString THEN a ELSE IF b # NoString THEN b ELSE NoString

\* the id of the award of file 1.json: awd_id, else awardNumber, else 1
C23_Id ==
  IF awardFiles[1].awd_id # 0 THEN awardFiles[1].awd_id
  ELSE IF awardFiles[1].awardNumber # 0 THEN awardFiles[1].awardNumber
  ELSE 1

\* C23: normalization takes title from awd_titl_txt, else title, else the
\* empty string; abstract from awd_abstract_narration, else abstractText,
\* else the empty string; the award id from awd_id, else awardNumber, else
\* the file name's id; and that id is the key of the processed check and the
\* name of the draft file.
C23_NormalizationPrecedence ==
  (fn.op = "loadAwards" /\ Len(fn.ret) = 1) =>
    LET raw   == awardFiles[1]
        award == fn.ret[1]
        draft == NewDraft(award)
    IN  /\ award.title = C23_FirstStr(raw.awd_titl_txt, raw.title)
        /\ award.abstractText = C23_FirstStr(raw.awd_abstract_narration, raw.abstractText)
        /\ award.awardNumber = C23_Id
        /\ award._id = 1
        /\ AwardIdOf(award) = C23_Id
        /\ (getUnprocessedAwards(awardFiles, fn.ids, fn.keywords) = <<>>)
             <=> (C23_Id \in FilesIn("drafts") \cup FilesIn("approved")
                               \cup FilesIn("sent") \cup FilesIn("skipped"))
        /\ draft.award_id = C23_Id
        /\ saveDraft(store, draft) = [store EXCEPT !["drafts"][C23_Id] = draft]

\* an award file with both ids and both titles, whose awd_id is drafted
C23_Witness ==
  /\ fn.op = "loadAwards"
  /\ Len(fn.ret) = 1
  /\ awardFiles[1].awd_id = 2
  /\ awardFiles[1].awardNumber = 3
  /\ awardFiles[1].awd_titl_txt # NoString
  /\ awardFiles[1].title # NoString
  /\ fn.ret[1].title = awardFiles[1].awd_titl_txt
  /\ 2 \in FilesIn("drafts")
  /\ getUnprocessedAwards(awardFiles, fn.ids, fn.keywords) = <<>>

\* the ids whose approved file parsed when the invocation started
C24_Readable == {id \in Ids : snap["approved"][id].kind = "record"}

\* toSend is the first min(limit, n) records of one order of the listing:
\* that many different records, each as it was in approved
C24_Selected ==
  /\ Len(snd.toSend) = Min(snd.limit, Cardinality(C24_Readable))
  /\ \A k \in 1..Len(snd.toSend) :
       /\ snd.toSend[k].award_id \in C24_Readable
       /\ snd.toSend[k] = snap["approved"][snd.toSend[k].award_id]
       /\ \A j \in 1..(k - 1) : snd.toSend[j].award_id # snd.toSend[k].award_id

C24_Delivers == SelectSeq(trace, LAMBDA ev : ev.e = "deliver")

\* C24: an invocation with limit >= 0 selects exactly the first
\* min(limit, n) records of the approved listing, handles them in listing
\* order and awaits each delivery call with its write and delete before
\* starting the next record: delivery calls are issued in increasing
\* position, at most once per selected record, and when one is issued every
\* earlier one has been settled (its record is in sent only, or in errors).
C24_OneRecordAtATime ==
  (pc \in SendPcs \ {"send_threw"}) =>
    /\ C24_Selected
    /\ \A a \in 1..Len(C24_Delivers) :
         LET ev == C24_Delivers[a]
         IN  /\ ev.k \in 1..Len(snd.toSend)
             /\ ev.k <= snd.i + 1
             /\ ev.id = snd.toSend[ev.k].award_id
             /\ \A b \in 1..(a - 1) :
                  LET earlier == C24_Delivers[b]
                  IN  /\ earlier.k < ev.k
                      /\ \/ FoldersOf(store, earlier.id) = {"sent"}
                         \/ \E j \in 1..Len(snd.errors) :
                              snd.errors[j].awardId = earlier.id
    /\ Cardinality({a \in 1..Len(C24_Delivers) : C24_Delivers[a].k > snd.i})
         <= 1
    /\ pc = "send_call" =>
         /\ Len(C24_Delivers) > 0
         /\ C24_Delivers[Len(C24_Delivers)].k = snd.i + 1
    /\ Len(snd.sent) + Len(snd.errors) <= snd.i + 1

\* the second of two selected records is being delivered, three approved
C24_Witness ==
  /\ pc = "send_call"
  /\ snd.limit = 2
  /\ Cardinality({id \in Ids : snap["approved"][id] # NoFile}) = 3
  /\ Len(snd.toSend) = 2
  /\ snd.i = 1
  /\ Len(C24_Delivers) = 2
  /\ FoldersOf(store, snd.toSend[1].award_id) = {"sent"}

\* the record of award id is readable in approved or in sent
C25_Held(st, id) ==
  \/ st["approved"][id].kind = "record"
  \/ st["sent"][id].kind = "record"

\* no step takes a record out of both approved and sent
C25_Step ==
  \A id \in Ids : C25_Held(store, id) => C25_Held(store', id)

\* while markAsSent is between its write and its delete the record is in
\* both folders
C25_Between ==
  pc = "mark_unlink" =>
    LET id == snd.toSend[snd.i + 1].award_id
    IN  /\ store["approved"][id].kind = "record"
        /\ store["sent"][id].kind = "record"

\* C25: during the success handling of a send (write into sent, then delete
\* from approved), at every intermediate point, a crash or an exception
\* between the two steps included, the record is in at least one of approved
\* and sent; it is never lost, and the one anomaly is that it is in both.
C25_ConfirmedRecordNeverLost == []C25_Between /\ [][C25_Step]_vars

\* the delete failed after the write: the command is over and the record is
\* in both folders
C25_Witness ==
  /\ pc = "idle"
  /\ \E id \in Ids : /\ store["approved"][id].kind = "record"
                     /\ store["sent"][id].kind = "record"
                     /\ store["sent"][id].resend_id # Null
                     /\ id \in provider

\* C27: across any sequence of invocations, failures of the write into sent
\* or of the delete from approved included, an award whose delivery call
\* returned success is never passed to the delivery call again.
C27_NeverDeliveredTwice ==
  pc = "send_call" => snd.toSend[snd.i + 1].award_id \notin provider

\* award id has an approved record that sendEmail accepts
C28_Deliverable(id) ==
  /\ store["approved"][id].kind = "record"
  /\ ~sendEmailThrows(store["approved"][id])

C28_Moved(id) ==
  /\ store["approved"][id] = NoFile
  /\ store["sent"][id].kind = "record"

\* C28: under repeated non-dry-run invocations with a fixed limit >= 1 and no
\* new approvals, every approved record whose delivery call would succeed is
\* eventually moved to sent, even when other approved records fail on every
\* attempt and stay in approved.
C28_DeliverableEventuallySent ==
  \A id \in Ids : C28_Deliverable(id) ~> C28_Moved(id)

\* the destination of the last call held a file before the call
C26_Occupied == snap[fn.toFolder][fn.id] # NoFile

\* C26: a move or a write whose destination already holds a record of the
\* same id replaces it without an error: after moveFile(id, from, to) the id
\* is absent from the source folder and the destination holds exactly the
\* moved content, whatever was there before; after writeJson the file holds
\* exactly the written data; no other file changes.
C26_DestinationIsReplaced ==
  /\ (fn.op = "moveFile" /\ ~fn.threw) =>
       /\ store[fn.fromFolder][fn.id] = NoFile
       /\ store[fn.toFolder][fn.id] = fn.data
       /\ fn.data = snap[fn.fromFolder][fn.id]
       /\ \A f \in StatusFolders, id \in Ids :
            (id # fn.id \/ f \notin {fn.fromFolder, fn.toFolder}) =>
              store[f][id] = snap[f][id]
  /\ fn.op = "moveFile" => (fn.threw <=> snap[fn.fromFolder][fn.id] = NoFile)
  /\ fn.op = "writeJson" =>
       /\ ~fn.threw
       /\ store[fn.toFolder][fn.id] = fn.data
       /\ \A f \in StatusFolders, id \in Ids :
            (id # fn.id \/ f # fn.toFolder) => store[f][id] = snap[f][id]

\* a draft was moved onto a different record of the same id in approved
C26_Witness ==
  /\ fn.op = "moveFile"
  /\ ~fn.threw
  /\ fn.fromFolder = "drafts"
  /\ fn.toFolder = "approved"
  /\ C26_Occupied
  /\ snap["approved"][fn.id] # fn.data
  /\ store["approved"][fn.id] = fn.data
  /\ store["drafts"][fn.id] = NoFile

\* the session on drafts moves award id out of drafts in this step
C29_Moves(id) ==
  /\ pc = "review"
  /\ rev.folder = "drafts"
  /\ rev.listening
  /\ store["drafts"][id] # NoFile
  /\ store'["drafts"][id] = NoFile
  /\ \E k \in 1..Len(rev.emails) : rev.emails[k].id = id
  /\ (pc' = "review" => \A k \in 1..Len(rev'.emails) : rev'.emails[k].id # id)

C29_Step == \A id \in Ids : C29_Moves(id) => rev.displayed = id

\* C29: every approve or skip of the review session moves the record that
\* was displayed last, for every interleaving of keypresses with the
\* handlers' pauses: no record is moved that has not been displayed since
\* the previous move.
C29_MovesTheDisplayedRecord == [][C29_Step]_vars

\* every loaded email of the session on drafts has been approved or skipped
C30_AllReviewed ==
  /\ pc = "review"
  /\ rev.folder = "drafts"
  /\ Len(rev.emails) = 0

\* the promise is resolved exactly when the listener is removed; a session
\* that is over or has nothing left is resolved or has the pause pending
\* whose refresh resolves it; a displayed entry is the one at the index
C30_State ==
  pc = "review" =>
    /\ rev.resolved <=> ~rev.listening
    /\ (~rev.running \/ C30_AllReviewed) => (rev.resolved \/ rev.timers > 0)
    /\ rev.displayed # 0 =>
         /\ InRange(rev)
         /\ rev.emails[rev.currentIndex + 1].id = rev.displayed

\* a session that has ended moves nothing, and a session with nothing left
\* goes on to resolve its promise: it leaves only resolved
C30_Step ==
  /\ (pc = "review" /\ rev.resolved) => store' = store
  /\ (pc = "review" /\ rev.resolved /\ pc' = "review") => rev'.resolved
  /\ (C30_AllReviewed /\ pc' # "review") => rev.resolved

\* C30: a review session over drafts ends, its promise resolved and its
\* keypress listener removed, once quit is pressed or every loaded email
\* has been approved or skipped; after it has ended no keypress moves a
\* record; whenever an email is displayed the index is within the list.
C30_SessionEnds == []C30_State /\ [][C30_Step]_vars

====
